---- MODULE Spec2Model ----
(***************************************************************************)
(* A model of the Airbnb market-analysis pipeline:                         *)
(*   src/src/clean_airbnb.py  the cleaner (raw CSV -> cleaned table)       *)
(*   src/src/eda_airbnb.py    the batch reporter (group averages, hosts)   *)
(*   src/src/app.py           the Streamlit dashboard (filters, cache)     *)
(*                                                                         *)
(* A table is [cols |-> sequence of column names, rows |-> sequence of     *)
(* rows, floats |-> the names of the columns pd.to_numeric made float64],  *)
(* a row being a sequence of cells aligned with cols.  A column            *)
(* name and a text cell are sequences of one-character strings, so that    *)
(* the string operations of the code are modelled character by character.  *)
(* A cell is a record [k, s, m, e]:                                        *)
(*   k = "nan"   a missing value (NaN / NaT / None)                        *)
(*   k = "str"   the text s                                                *)
(*   k = "num"   the decimal number m / 10^e, kept without trailing zeros  *)
(*   k = "date"  a timestamp, m = yyyymmdd                                 *)
(***************************************************************************)
EXTENDS Integers, Sequences, FiniteSets, TLC

VARIABLES
    raw,        \* cleaner: the raw table in the file at DATA_PATH
    df,         \* cleaner: main()'s local df
    pc,         \* cleaner: main()'s position
    runs,       \* cleaner: the number of runs that reached the end of main()
    parquet,    \* the file at OUT_PARQUET_PATH: [exists, readable, data]
    csv,        \* the file at the same base name with .csv, as text cells
    rpc,        \* batch reporter: main()'s position
    rdf,        \* batch reporter: main()'s df, [data, asOf]
    avg_series, \* batch reporter: what avg_price_by_neighbourhood_group returned
    top_series, \* batch reporter: what top_hosts returned
    written,    \* batch reporter: the summary files written
    cache,      \* dashboard process: the st.cache_data entry of load_data
    reads,      \* dashboard process: the file reads it has attempted
    view,       \* dashboard process: what the last script run worked on
    tab5        \* dashboard process: what the last script run did in the map tab

cleanerVars == <<raw, df, pc, runs>>
fileVars == <<parquet, csv>>
reporterVars == <<rpc, rdf, avg_series, top_series, written>>
dashVars == <<cache, reads, view, tab5>>
vars == <<raw, df, pc, runs, parquet, csv, rpc, rdf, avg_series, top_series,
          written, cache, reads, view, tab5>>

(***************************************************************************)
(* Cells and numbers                                                       *)
(***************************************************************************)
Missing == [k |-> "nan", s |-> <<>>, m |-> 0, e |-> 0]
Str(s) == [k |-> "str", s |-> s, m |-> 0, e |-> 0]
Date(d) == [k |-> "date", s |-> <<>>, m |-> d, e |-> 0]
Num(m, e) == [k |-> "num", s |-> <<>>, m |-> m, e |-> e]

isna(c) == c.k = "nan"

RECURSIVE Pow10(_)
Pow10(n) == IF n = 0 THEN 1 ELSE 10 * Pow10(n - 1)

Abs(n) == IF n < 0 THEN -n ELSE n

\* The number m / 10^e in its canonical form.
RECURSIVE Norm(_, _)
Norm(m, e) ==
    IF e > 0 /\ m % 10 = 0 THEN Norm(m \div 10, e - 1) ELSE Num(m, e)

\* a <= b for two numeric cells.
NumLe(a, b) == a.m * Pow10(b.e) <= b.m * Pow10(a.e)

\* Series >= scalar and Series <= scalar, cell by cell: a comparison with a
\* missing value is False.
Ge(c, bound) == c.k = "num" /\ NumLe(Num(bound, 0), c)
Le(c, bound) == c.k = "num" /\ NumLe(c, Num(bound, 0))

\* Fractions n / d, d > 0, for means, quantiles and slider positions
Frac(n, d) == [nan |-> FALSE, n |-> n, d |-> d]
NaNFrac == [nan |-> TRUE, n |-> 0, d |-> 1]
FracOf(c) == Frac(c.m, Pow10(c.e))

\* a >= b for two present fractions
FracGe(a, b) == a.n * b.d >= b.n * a.d

(***************************************************************************)
(* Characters                                                              *)
(***************************************************************************)
Digits == <<"0", "1", "2", "3", "4", "5", "6", "7", "8", "9">>
UpperChars ==
    <<"A", "B", "C", "D", "E", "F", "G", "H", "I", "J", "K", "L", "M",
      "N", "O", "P", "Q", "R", "S", "T", "U", "V", "W", "X", "Y", "Z">>
LowerChars ==
    <<"a", "b", "c", "d", "e", "f", "g", "h", "i", "j", "k", "l", "m",
      "n", "o", "p", "q", "r", "s", "t", "u", "v", "w", "x", "y", "z">>

IsDigit(c) == \E i \in 1..10 : Digits[i] = c
DigitVal(c) == (CHOOSE i \in 1..10 : Digits[i] = c) - 1
IsSpace(c) == c \in {" ", "\t"}

\* str.lower() on one character
LowerChar(c) ==
    IF \E i \in 1..26 : UpperChars[i] = c
    THEN LowerChars[CHOOSE i \in 1..26 : UpperChars[i] = c]
    ELSE c

(***************************************************************************)
(* normalize_columns: strip, lower, whitespace runs -> "_"                 *)
(***************************************************************************)
RECURSIVE LStrip(_)
LStrip(s) == IF s # <<>> /\ IsSpace(s[1]) THEN LStrip(Tail(s)) ELSE s

RECURSIVE RStrip(_)
RStrip(s) ==
    IF s # <<>> /\ IsSpace(s[Len(s)])
    THEN RStrip(SubSeq(s, 1, Len(s) - 1))
    ELSE s

StrStrip(s) == RStrip(LStrip(s))
StrLower(s) == [i \in 1..Len(s) |-> LowerChar(s[i])]

\* str.replace(r"\s+", "_", regex=True)
RECURSIVE ReplaceSpaceRuns(_)
ReplaceSpaceRuns(s) ==
    IF s = <<>> THEN <<>>
    ELSE IF IsSpace(s[1]) THEN <<"_">> \o ReplaceSpaceRuns(LStrip(s))
    ELSE <<s[1]>> \o ReplaceSpaceRuns(Tail(s))

NormalizeName(s) == ReplaceSpaceRuns(StrLower(StrStrip(s)))

normalize_columns(t) ==
    [t EXCEPT !.cols = [i \in 1..Len(t.cols) |-> NormalizeName(t.cols[i])],
              !.floats = {NormalizeName(c) : c \in t.floats}]

(***************************************************************************)
(* Column access                                                           *)
(***************************************************************************)
HasCol(t, name) == \E i \in 1..Len(t.cols) : t.cols[i] = name
ColIndex(t, name) == CHOOSE i \in 1..Len(t.cols) : t.cols[i] = name
\* df[name]
Column(t, name) == [r \in 1..Len(t.rows) |-> t.rows[r][ColIndex(t, name)]]
\* df[name] = series
SetColumn(t, name, series) ==
    [t EXCEPT !.rows =
        [r \in 1..Len(t.rows) |->
            [t.rows[r] EXCEPT ![ColIndex(t, name)] = series[r]]]]

\* Series.dropna()
DropNa(series) == SelectSeq(series, LAMBDA c : ~isna(c))

(***************************************************************************)
(* clean_currency_cols: astype(str), strip "$" and ",", to_numeric         *)
(***************************************************************************)
RECURSIVE NatToStr(_)
NatToStr(n) ==
    IF n < 10 THEN <<Digits[n + 1]>>
    ELSE Append(NatToStr(n \div 10), Digits[(n % 10) + 1])

RECURSIVE ZeroPad(_, _)
ZeroPad(s, width) == IF Len(s) >= width THEN s ELSE ZeroPad(<<"0">> \o s, width)

SignStr(m) == IF m < 0 THEN <<"-">> ELSE <<>>

\* str() of an int64 value and of a float64 value
IntRepr(c) == SignStr(c.m) \o NatToStr(Abs(c.m))
FloatRepr(c) ==
    SignStr(c.m) \o NatToStr(Abs(c.m) \div Pow10(c.e)) \o <<".">>
        \o (IF c.e = 0 THEN <<"0">>
            ELSE ZeroPad(NatToStr(Abs(c.m) % Pow10(c.e)), c.e))

\* Series.astype(str), cell by cell
AsTypeStr(c, intColumn) ==
    CASE c.k = "str" -> c.s
      [] c.k = "nan" -> <<"n", "a", "n">>
      [] c.k = "num" -> IF intColumn THEN IntRepr(c) ELSE FloatRepr(c)
      [] OTHER -> <<"d", "a", "t", "e">>

\* As StripCurrency with the character class [\$]
StripDollarOnly(s) == SelectSeq(s, LAMBDA c : c # "$")

\* As StripCurrency with the character class [\$,.]
StripCurrencyAndPoint(s) == SelectSeq(s, LAMBDA c : c \notin {"$", ",", "."})

\* str.replace(r"[\$,]", "", regex=True)
StripCurrency(s) == SelectSeq(s, LAMBDA c : c \notin {"$", ","})

RECURSIVE DigitsValue(_)
DigitsValue(s) ==
    IF s = <<>> THEN 0
    ELSE DigitsValue(SubSeq(s, 1, Len(s) - 1)) * 10 + DigitVal(s[Len(s)])

\* pd.to_numeric(errors="coerce") on one string: an optional sign, digits
\* with at most one decimal point and at least one digit; anything else
\* (the text "nan" included) is coerced to a missing value.
ToNumeric(s) ==
    LET signed == s # <<>> /\ s[1] \in {"-", "+"}
        body == IF signed THEN Tail(s) ELSE s
        dots == {i \in 1..Len(body) : body[i] = "."}
        digs == SelectSeq(body, IsDigit)
        sign == IF signed /\ s[1] = "-" THEN -1 ELSE 1
    IN  IF /\ \A i \in 1..Len(body) : IsDigit(body[i]) \/ body[i] = "."
           /\ Cardinality(dots) <= 1
           /\ digs # <<>>
        THEN Norm(sign * DigitsValue(digs),
                  IF dots = {} THEN 0
                  ELSE Len(body) - (CHOOSE i \in dots : TRUE))
        ELSE Missing

\* The texts pd.to_numeric reads as int64: an optional sign and digits.
IsIntLiteral(s) ==
    LET body == IF s # <<>> /\ s[1] \in {"-", "+"} THEN Tail(s) ELSE s
    IN  body # <<>> /\ \A i \in 1..Len(body) : IsDigit(body[i])

\* df[col].astype(str).str.replace(r"[\$,]", "", regex=True)
CurrencyTexts(t, col) ==
    LET series == Column(t, col)
    IN  [r \in 1..Len(series) |->
            StripCurrency(AsTypeStr(series[r], col \notin t.floats))]

\* df[col] = pd.to_numeric(texts, errors="coerce"): the column is int64 when
\* every text is an integer literal and float64 otherwise.
AssignNumeric(t, col, texts) ==
    LET assigned == SetColumn(t, col, [r \in 1..Len(texts) |-> ToNumeric(texts[r])])
    IN  [assigned EXCEPT !.floats =
            IF \A r \in 1..Len(texts) : IsIntLiteral(texts[r])
            THEN t.floats \ {col}
            ELSE t.floats \cup {col}]

RECURSIVE clean_currency_cols(_, _)
clean_currency_cols(t, cols) ==
    IF cols = <<>> THEN t
    ELSE LET col == cols[1]
             rest == Tail(cols)
         IN  IF HasCol(t, col)
             THEN clean_currency_cols(
                      AssignNumeric(t, col, CurrencyTexts(t, col)), rest)
             ELSE clean_currency_cols(t, rest)

(***************************************************************************)
(* Column names after normalisation                                        *)
(***************************************************************************)
PRICE == <<"p", "r", "i", "c", "e">>
SERVICE_FEE == <<"s", "e", "r", "v", "i", "c", "e", "_", "f", "e", "e">>
LAST_REVIEW == <<"l", "a", "s", "t", "_", "r", "e", "v", "i", "e", "w">>
AVAILABILITY_365 ==
    <<"a", "v", "a", "i", "l", "a", "b", "i", "l", "i", "t", "y", "_",
      "3", "6", "5">>
NUMBER_OF_REVIEWS ==
    <<"n", "u", "m", "b", "e", "r", "_", "o", "f", "_",
      "r", "e", "v", "i", "e", "w", "s">>
REVIEWS_PER_MONTH ==
    <<"r", "e", "v", "i", "e", "w", "s", "_", "p", "e", "r", "_",
      "m", "o", "n", "t", "h">>
HOST_IDENTITY_VERIFIED ==
    <<"h", "o", "s", "t", "_", "i", "d", "e", "n", "t", "i", "t", "y", "_",
      "v", "e", "r", "i", "f", "i", "e", "d">>
HOST_NAME == <<"h", "o", "s", "t", "_", "n", "a", "m", "e">>
HOST_ID == <<"h", "o", "s", "t", "_", "i", "d">>
ID == <<"i", "d">>
LAT == <<"l", "a", "t">>
LONG == <<"l", "o", "n", "g">>
ROOM_TYPE == <<"r", "o", "o", "m", "_", "t", "y", "p", "e">>
NEIGHBOURHOOD_GROUP ==
    <<"n", "e", "i", "g", "h", "b", "o", "u", "r", "h", "o", "o", "d", "_",
      "g", "r", "o", "u", "p">>
UNKNOWN == <<"u", "n", "k", "n", "o", "w", "n">>

(***************************************************************************)
(* parse_date_cols: pd.to_datetime(errors="coerce").  The texts modelled   *)
(* as dates are those of the form m/d/yyyy with a one-digit month and day. *)
(***************************************************************************)
IsDateText(s) ==
    /\ Len(s) = 8
    /\ s[2] = "/" /\ s[4] = "/"
    /\ \A i \in {1, 3, 5, 6, 7, 8} : IsDigit(s[i])
    /\ DigitVal(s[1]) >= 1 /\ DigitVal(s[3]) >= 1

ToDatetime(c) ==
    CASE c.k = "date" -> c
      [] c.k = "str" /\ IsDateText(c.s) ->
            Date(DigitsValue(SubSeq(c.s, 5, 8)) * 10000
                 + DigitVal(c.s[1]) * 100 + DigitVal(c.s[3]))
      [] OTHER -> Missing

RECURSIVE parse_date_cols(_, _)
parse_date_cols(t, cols) ==
    IF cols = <<>> THEN t
    ELSE LET col == cols[1]
             rest == Tail(cols)
         IN  IF HasCol(t, col)
             THEN LET series == Column(t, col)
                  IN  parse_date_cols(
                          SetColumn(t, col,
                              [r \in 1..Len(series) |-> ToDatetime(series[r])]),
                          rest)
             ELSE parse_date_cols(t, rest)

(***************************************************************************)
(* fill_missing_values: fillna(default) on the columns that exist          *)
(***************************************************************************)
FillNa(series, default) ==
    [r \in 1..Len(series) |-> IF isna(series[r]) THEN default ELSE series[r]]

\* cols_with_defaults of main(), in the dict's order
cols_with_defaults ==
    << <<REVIEWS_PER_MONTH, Num(0, 0)>>,
       <<HOST_IDENTITY_VERIFIED, Str(UNKNOWN)>> >>

RECURSIVE fill_missing_values(_, _)
fill_missing_values(t, defaults) ==
    IF defaults = <<>> THEN t
    ELSE LET col == defaults[1][1]
             default == defaults[1][2]
             rest == Tail(defaults)
         IN  IF HasCol(t, col)
             THEN fill_missing_values(
                      SetColumn(t, col, FillNa(Column(t, col), default)), rest)
             ELSE fill_missing_values(t, rest)

(***************************************************************************)
(* remove_outliers_bounds: df[isna | ((col >= lower) & (col <= upper))]    *)
(***************************************************************************)
PRICE_LOWER == 0
PRICE_UPPER == 10000
AVAIL_LOWER == 0
AVAIL_UPPER == 365

\* df[mask]: the rows whose mask entry is True, in their order
RECURSIVE SelectByMask(_, _)
SelectByMask(rows, mask) ==
    IF rows = <<>> THEN <<>>
    ELSE LET n == Len(rows)
             front == SelectByMask(SubSeq(rows, 1, n - 1), mask)
         IN  IF mask[n] THEN Append(front, rows[n]) ELSE front

\* As remove_outliers_bounds without the isna() term of the mask.
remove_outliers_bounds_no_isna(t, col, lower, upper) ==
    IF ~HasCol(t, col) THEN t
    ELSE LET series == Column(t, col)
             mask == [r \in 1..Len(series) |->
                         Ge(series[r], lower) /\ Le(series[r], upper)]
         IN  [t EXCEPT !.rows = SelectByMask(t.rows, mask)]

remove_outliers_bounds(t, col, lower, upper) ==
    IF ~HasCol(t, col) THEN t
    ELSE LET series == Column(t, col)
             mask == [r \in 1..Len(series) |->
                         isna(series[r])
                         \/ (Ge(series[r], lower) /\ Le(series[r], upper))]
         IN  [t EXCEPT !.rows = SelectByMask(t.rows, mask)]

(***************************************************************************)
(* sanity_checks: the asserts on Series.dropna().min() / .max()            *)
(***************************************************************************)
\* Series.min() and Series.max(): the missing value for an empty series
RECURSIVE SeriesMin(_)
SeriesMin(series) ==
    IF series = <<>> THEN Missing
    ELSE LET rest == SeriesMin(Tail(series))
         IN  IF isna(rest) \/ NumLe(series[1], rest) THEN series[1] ELSE rest

RECURSIVE SeriesMax(_)
SeriesMax(series) ==
    IF series = <<>> THEN Missing
    ELSE LET rest == SeriesMax(Tail(series))
         IN  IF isna(rest) \/ NumLe(rest, series[1]) THEN series[1] ELSE rest

\* "ok", or the message of the first assert that fails
sanity_checks(t) ==
    IF HasCol(t, PRICE) /\ ~Ge(SeriesMin(DropNa(Column(t, PRICE))), 0)
    THEN "Price column has negative values"
    ELSE IF /\ HasCol(t, NUMBER_OF_REVIEWS)
            /\ ~Ge(SeriesMin(DropNa(Column(t, NUMBER_OF_REVIEWS))), 0)
    THEN "Number of reviews has negative values"
    ELSE IF /\ HasCol(t, REVIEWS_PER_MONTH)
            /\ ~Ge(SeriesMin(DropNa(Column(t, REVIEWS_PER_MONTH))), 0)
    THEN "Reviews per month has negative values"
    ELSE IF /\ HasCol(t, AVAILABILITY_365)
            /\ ~Ge(SeriesMin(DropNa(Column(t, AVAILABILITY_365))), 0)
    THEN "Availability 365 has negative values"
    ELSE IF /\ HasCol(t, AVAILABILITY_365)
            /\ ~Le(SeriesMax(DropNa(Column(t, AVAILABILITY_365))), 365)
    THEN "Availability 365 exceeds 365"
    ELSE "ok"

(***************************************************************************)
(* The persist step of main(): to_parquet, and to_csv when it raises.      *)
(* A file is [exists, readable, data].  The columnar file holds the table  *)
(* as it is, the delimited-text file holds it as text cells.  A write that *)
(* raises leaves the target as it was (the engine is missing) or leaves an *)
(* unreadable file behind (it failed part-way).                            *)
(***************************************************************************)
EmptyTable == [cols |-> <<>>, rows |-> <<>>, floats |-> {}]
NoFile == [exists |-> FALSE, readable |-> FALSE, data |-> EmptyTable]
FileOf(t) == [exists |-> TRUE, readable |-> TRUE, data |-> t]
BrokenFile == [exists |-> TRUE, readable |-> FALSE, data |-> EmptyTable]

\* DataFrame.to_csv(index=False), cell by cell: a number as str() gives it,
\* a timestamp as yyyy-mm-dd, a missing value as the empty text.
DateRepr(c) ==
    ZeroPad(NatToStr(c.m \div 10000), 4) \o <<"-">>
        \o ZeroPad(NatToStr((c.m \div 100) % 100), 2) \o <<"-">>
        \o ZeroPad(NatToStr(c.m % 100), 2)

CsvText(c, intColumn) ==
    CASE c.k = "nan" -> <<>>
      [] c.k = "date" -> DateRepr(c)
      [] OTHER -> AsTypeStr(c, intColumn)

\* A numeric column holding whole numbers only and no missing value is
\* int64; to_numeric and read_csv make any other numeric column float64.
IsIntColumn(t, i) ==
    /\ t.cols[i] \notin t.floats
    /\ \A r \in 1..Len(t.rows) : t.rows[r][i].k = "num" /\ t.rows[r][i].e = 0

to_csv(t) ==
    [cols |-> t.cols,
     rows |-> [r \in 1..Len(t.rows) |->
                 [i \in 1..Len(t.cols) |->
                     Str(CsvText(t.rows[r][i], IsIntColumn(t, i)))]],
     floats |-> {}]

\* pd.read_csv: the texts it reads as a missing value (of its defaults,
\* those the sample cells can spell), and its column types: a column whose
\* present texts are all numbers is numeric, any other is text.
NaTexts == {<<>>, <<"n", "a", "n">>, <<"n", "/", "a">>}

CsvColumnIsNumeric(t, i) ==
    \A r \in 1..Len(t.rows) :
        t.rows[r][i].s \in NaTexts \/ ToNumeric(t.rows[r][i].s) # Missing

read_csv(t) ==
    [cols |-> t.cols,
     rows |-> [r \in 1..Len(t.rows) |->
                 [i \in 1..Len(t.cols) |->
                     IF t.rows[r][i].s \in NaTexts THEN Missing
                     ELSE IF CsvColumnIsNumeric(t, i) THEN ToNumeric(t.rows[r][i].s)
                     ELSE t.rows[r][i]]],
     floats |-> {t.cols[i] : i \in
                  {j \in 1..Len(t.cols) :
                      /\ CsvColumnIsNumeric(t, j)
                      /\ \E r \in 1..Len(t.rows) : ~IsIntLiteral(t.rows[r][j].s)}}]

WriteOutcomes == {"written", "raised_untouched", "raised_partial"}

\* [parquet, csv] after the try/except of main() on the files [parquet, csv]
save(files, t, outcome) ==
    IF outcome = "written"
    THEN [files EXCEPT !.parquet = FileOf(t)]
    ELSE [parquet |-> IF outcome = "raised_partial" THEN BrokenFile
                      ELSE files.parquet,
          csv |-> FileOf(to_csv(t))]

(***************************************************************************)
(* The cleaner, main(), step by step                                       *)
(***************************************************************************)
LoadRaw ==
    /\ pc = "load_raw"
    /\ df' = raw
    /\ pc' = "normalize_columns"
    /\ UNCHANGED <<raw, runs, parquet, csv, reporterVars, dashVars>>

NormalizeColumns ==
    /\ pc = "normalize_columns"
    /\ df' = normalize_columns(df)
    /\ pc' = "clean_currency_cols"
    /\ UNCHANGED <<raw, runs, parquet, csv, reporterVars, dashVars>>

CleanCurrencyCols ==
    /\ pc = "clean_currency_cols"
    /\ df' = clean_currency_cols(df,
                SelectSeq(<<PRICE, SERVICE_FEE>>, LAMBDA c : HasCol(df, c)))
    /\ pc' = "parse_date_cols"
    /\ UNCHANGED <<raw, runs, parquet, csv, reporterVars, dashVars>>

ParseDateCols ==
    /\ pc = "parse_date_cols"
    /\ df' = parse_date_cols(df, <<LAST_REVIEW>>)
    /\ pc' = "fill_missing_values"
    /\ UNCHANGED <<raw, runs, parquet, csv, reporterVars, dashVars>>

FillMissingValues ==
    /\ pc = "fill_missing_values"
    /\ df' = fill_missing_values(df, cols_with_defaults)
    /\ pc' = "remove_outliers_price"
    /\ UNCHANGED <<raw, runs, parquet, csv, reporterVars, dashVars>>

RemoveOutliersPrice ==
    /\ pc = "remove_outliers_price"
    /\ df' = remove_outliers_bounds(df, PRICE, PRICE_LOWER, PRICE_UPPER)
    /\ pc' = "remove_outliers_availability"
    /\ UNCHANGED <<raw, runs, parquet, csv, reporterVars, dashVars>>

RemoveOutliersAvailability ==
    /\ pc = "remove_outliers_availability"
    /\ df' = remove_outliers_bounds(df, AVAILABILITY_365, AVAIL_LOWER, AVAIL_UPPER)
    /\ pc' = "sanity_checks"
    /\ UNCHANGED <<raw, runs, parquet, csv, reporterVars, dashVars>>

\* An assert that fails ends the run before anything is written.
SanityChecks ==
    /\ pc = "sanity_checks"
    /\ pc' = IF sanity_checks(df) = "ok" THEN "save" ELSE "aborted"
    /\ UNCHANGED <<raw, df, runs, parquet, csv, reporterVars, dashVars>>

Save ==
    /\ pc = "save"
    /\ \E outcome \in WriteOutcomes :
          LET files == save([parquet |-> parquet, csv |-> csv], df, outcome)
          IN  parquet' = files.parquet /\ csv' = files.csv
    /\ pc' = "done"
    /\ runs' = runs + 1
    /\ UNCHANGED <<raw, df, reporterVars, dashVars>>

\* Steps 1 to 6 of main() as one function of the table
CleanSteps(t) ==
    LET named == normalize_columns(t)
        priced == clean_currency_cols(named,
                      SelectSeq(<<PRICE, SERVICE_FEE>>, LAMBDA c : HasCol(named, c)))
        dated == parse_date_cols(priced, <<LAST_REVIEW>>)
        filled == fill_missing_values(dated, cols_with_defaults)
        trimmed == remove_outliers_bounds(
                       remove_outliers_bounds(filled, PRICE, PRICE_LOWER, PRICE_UPPER),
                       AVAILABILITY_365, AVAIL_LOWER, AVAIL_UPPER)
    IN  [df |-> trimmed, checks |-> sanity_checks(trimmed)]

(***************************************************************************)
(* Values of the reporter and of the dashboard process before they have    *)
(* done anything                                                           *)
(***************************************************************************)
NoTop == [n |-> 0, entries |-> <<>>]
NoCache == [state |-> "empty", data |-> EmptyTable, asOf |-> 0]
NoSelection == [shown |-> FALSE, sel |-> {}]
NoWidgets ==
    [ng |-> NoSelection, rt |-> NoSelection,
     price |-> <<Frac(0, 1), Frac(0, 1)>>, avail |-> <<Frac(0, 1), Frac(0, 1)>>,
     rpm |-> <<Frac(0, 1), Frac(0, 1)>>]
NoPanel == [shown |-> FALSE, s |-> <<>>]
NoMap ==
    [state |-> "none", cols |-> <<>>, n |-> 0, lo |-> 0, hi |-> 0, default |-> 0,
     sample_n |-> 0, drawn |-> 0]
NoView ==
    [state |-> "none", df |-> EmptyTable, w |-> NoWidgets, dff |-> EmptyTable,
     tab2 |-> NoPanel, top |-> NoPanel, asOf |-> 0]

(***************************************************************************)
(* Raw tables                                                              *)
(***************************************************************************)
MaxRows == 2
MaxLen == 4

\* The header as the dataset spells it ("service fee") and a padded,
\* capitalised spelling with a run of whitespace (" Service \tfee ").
DatasetSpelling(name) ==
    [i \in 1..Len(name) |-> IF name[i] = "_" THEN " " ELSE name[i]]

RECURSIVE WidenSpaces(_)
WidenSpaces(name) ==
    IF name = <<>> THEN <<>>
    ELSE (IF name[1] = "_" THEN <<" ", "\t">> ELSE <<name[1]>>)
             \o WidenSpaces(Tail(name))

UpperChar(c) ==
    IF \E i \in 1..26 : LowerChars[i] = c
    THEN UpperChars[CHOOSE i \in 1..26 : LowerChars[i] = c]
    ELSE c

PaddedSpelling(name) ==
    <<" ", UpperChar(name[1])>> \o WidenSpaces(Tail(name)) \o <<" ">>

SpellingStyles == {"normalised", "dataset", "padded"}
Spell(name, style) ==
    CASE style = "dataset" -> DatasetSpelling(name)
      [] style = "padded" -> PaddedSpelling(name)
      [] OTHER -> name

\* Sample cells
Txt0 == Str(<<"$", "0">>)
Txt50 == Str(<<"$", "5", "0">>)
Txt1200_5 == Str(<<"$", "1", ",", "2", "0", "0", ".", "5">>)
Txt10000 == Str(<<"$", "1", "0", ",", "0", "0", "0">>)
Txt10000_5 == Str(<<"1", "0", "0", "0", "0", ".", "5">>)
Txt20000 == Str(<<"$", "2", "0", ",", "0", "0", "0">>)
TxtMinus5 == Str(<<"-", "5">>)
TxtMinusHalf == Str(<<"-", "$", "0", ".", "5">>)
TxtGarbage == Str(<<"n", "/", "a">>)
TxtDate == Str(<<"6", "/", "9", "/", "2", "0", "2", "1">>)
TxtVerified == Str(<<"v", "e", "r", "i", "f", "i", "e", "d">>)

\* Sample columns: the normalised names of the columns of a raw table and,
\* for each, the cells its rows are drawn from.
SampleColumns ==
    { [cols |-> <<PRICE>>,
       cells |-> <<{Txt0, Txt50, Txt10000, Txt10000_5, Txt20000,
                    TxtMinusHalf, TxtGarbage, Missing}>>],
      [cols |-> <<AVAILABILITY_365>>,
       cells |-> <<{Num(0, 0), Num(100, 0), Num(365, 0), Num(366, 0),
                    Num(-1, 0), Num(3677, 0), Missing}>>],
      [cols |-> <<PRICE, AVAILABILITY_365>>,
       cells |-> <<{Txt50, Txt20000, Missing},
                   {Num(100, 0), Num(-10, 0), Missing}>>],
      [cols |-> <<SERVICE_FEE, PRICE>>,
       cells |-> <<{Txt1200_5, TxtMinus5, TxtGarbage}, {Txt50, Txt1200_5, TxtMinus5}>>],
      [cols |-> <<NUMBER_OF_REVIEWS, REVIEWS_PER_MONTH>>,
       cells |-> <<{Num(3, 0), Num(-1, 0), Missing},
                   {Num(15, 1), Num(-2, 0), Missing}>>],
      [cols |-> <<PRICE, NUMBER_OF_REVIEWS>>,
       cells |-> <<{Txt50, Txt20000, Missing}, {Num(3, 0), Num(-1, 0), Missing}>>],
      [cols |-> <<LAST_REVIEW, HOST_IDENTITY_VERIFIED, AVAILABILITY_365>>,
       cells |-> <<{TxtDate, TxtGarbage, Missing}, {TxtVerified, Missing},
                   {Num(100, 0)}>>] }

\* The rows over a sequence of cell sets: one cell of each set
RECURSIVE RowsOver(_)
RowsOver(cells) ==
    IF cells = <<>> THEN {<<>>}
    ELSE {<<c>> \o r : c \in cells[1], r \in RowsOver(Tail(cells))}

\* The raw tables of a sample: every column spelled one way, at most MaxRows rows
RawTablesOf(sc) ==
    LET rowSet == RowsOver(sc.cells)
    IN  {[cols |-> [i \in 1..Len(sc.cols) |-> Spell(sc.cols[i], style)],
          rows |-> rows, floats |-> {}] :
            style \in SpellingStyles,
            rows \in UNION {[1..n -> rowSet] : n \in 0..MaxRows}}

RawTables == UNION {RawTablesOf(sc) : sc \in SampleColumns}

\* No reporter and no dashboard process is running.
ReporterIdle ==
    /\ rpc = "idle"
    /\ rdf = [data |-> EmptyTable, asOf |-> 0]
    /\ avg_series = <<>>
    /\ top_series = NoTop
    /\ written = {}

DashIdle ==
    /\ cache = NoCache
    /\ reads = 0
    /\ view = NoView
    /\ tab5 = NoMap

Init ==
    /\ raw \in RawTables
    /\ df = EmptyTable
    /\ pc = "load_raw"
    /\ runs = 0
    /\ parquet = NoFile
    /\ csv = NoFile
    /\ ReporterIdle
    /\ DashIdle

Next ==
    \/ LoadRaw
    \/ NormalizeColumns
    \/ CleanCurrencyCols
    \/ ParseDateCols
    \/ FillMissingValues
    \/ RemoveOutliersPrice
    \/ RemoveOutliersAvailability
    \/ SanityChecks
    \/ Save

Spec == Init /\ [][Next]_vars

(***************************************************************************)
(* Properties of the cleaner                                               *)
(***************************************************************************)
\* A cell that is missing, or a number within [lo, hi]
MissingOrWithin(c, lo, hi) ==
    \/ c.k = "nan"
    \/ c.k = "num" /\ lo * Pow10(c.e) <= c.m /\ c.m <= hi * Pow10(c.e)

\* after is before without the rows whose col cell is present and outside
\* [lo, hi]; without the column, after is before
KeptExactly(before, after, col, lo, hi) ==
    IF \A i \in 1..Len(before.cols) : before.cols[i] # col
    THEN after = before
    ELSE LET i == CHOOSE j \in 1..Len(before.cols) : before.cols[j] = col
         IN  /\ after.cols = before.cols
             /\ after.rows =
                  SelectSeq(before.rows, LAMBDA r : MissingOrWithin(r[i], lo, hi))

AllWithin(t, col, lo, hi) ==
    \A i \in 1..Len(t.cols) : t.cols[i] = col =>
        \A r \in 1..Len(t.rows) : MissingOrWithin(t.rows[r][i], lo, hi)

\* C1: hard-bound trimming on price with [0, 10000] and then on
\* availability_365 with [0, 365] keeps exactly the rows whose value in the
\* column is missing or within the inclusive bounds (no such row is dropped,
\* no other row survives, the table is unchanged when the column is absent),
\* so that every row past the trimming has both values missing or in bounds.
C1_HardBoundTrimming ==
    [][/\ (pc = "remove_outliers_price" /\ pc' = "remove_outliers_availability")
            => KeptExactly(df, df', PRICE, 0, 10000)
       /\ (pc = "remove_outliers_availability" /\ pc' = "sanity_checks")
            => KeptExactly(df, df', AVAILABILITY_365, 0, 365)
       /\ pc' \in {"sanity_checks", "save", "done", "aborted"}
            => /\ AllWithin(df', PRICE, 0, 10000)
               /\ AllWithin(df', AVAILABILITY_365, 0, 365)]_vars

\* C1's case: of two rows with both columns, the one with a missing price
\* survived the trimming and the other was dropped.
C1_Witness ==
    /\ pc = "sanity_checks"
    /\ HasCol(df, PRICE) /\ HasCol(df, AVAILABILITY_365)
    /\ Len(raw.rows) = 2 /\ Len(df.rows) = 1
    /\ isna(Column(df, PRICE)[1])

\* Some present value the sanity checks are about is out of its range.
PresentViolation(t) ==
    \/ \E i \in 1..Len(t.cols), r \in 1..Len(t.rows) :
          /\ t.cols[i] \in {PRICE, NUMBER_OF_REVIEWS, REVIEWS_PER_MONTH}
          /\ t.rows[r][i].k = "num" /\ t.rows[r][i].m < 0
    \/ \E i \in 1..Len(t.cols), r \in 1..Len(t.rows) :
          /\ t.cols[i] = AVAILABILITY_365
          /\ t.rows[r][i].k = "num"
          /\ ~MissingOrWithin(t.rows[r][i], 0, 365)

\* C2: the sanity checks abort the run if and only if some present value of
\* price, number_of_reviews or reviews_per_month is negative or some present
\* value of availability_365 is outside [0, 365]; a checked column without
\* present values passes and the run goes on to the persist step.
C2_SanityJudgesPresentValues ==
    pc \in {"save", "done", "aborted"} =>
        ((pc = "aborted") <=> PresentViolation(df))

\* C4: the cleaning steps applied to a table the cleaner produced give the
\* same column names, rows and values back, and the sanity checks pass.
C4_CleaningIdempotent ==
    pc \in {"save", "done"} => CleanSteps(df) = [df |-> df, checks |-> "ok"]

\* C4's case: a cleaned table whose headers were renamed, that lost a row to
\* the trimming and holds a float64 price column.
C4_Witness ==
    /\ pc = "done"
    /\ df.cols # raw.cols
    /\ Len(df.rows) >= 1 /\ Len(df.rows) < Len(raw.rows)
    /\ PRICE \in df.floats

(***************************************************************************)
(* Currency coercion on its own: a one-row raw table whose price cell is   *)
(* any text of at most MaxLen characters over CurrencyAlphabet             *)
(***************************************************************************)
CurrencyAlphabet == {"$", ",", ".", "0", "1", "-", "x"}
TxtExample == Str(<<"$", "1", ",", "2", "3", "4", ".", "5", "6">>)
TxtName == Str(<<"$", "1", ",", "0">>)

CurrencyCells ==
    {Str(s) : s \in UNION {[1..n -> CurrencyAlphabet] : n \in 0..MaxLen}}
        \cup {Missing, TxtExample, Txt1200_5, Txt20000}

CurrencyTables ==
    {[cols |-> <<PaddedSpelling(PRICE), DatasetSpelling(SERVICE_FEE),
                 DatasetSpelling(HOST_NAME)>>,
      rows |-> <<<<price, fee, TxtName>>>>,
      floats |-> {}] :
        price \in CurrencyCells, fee \in {TxtExample, TxtMinus5, Missing}}

InitCurrency ==
    /\ raw \in CurrencyTables
    /\ df = EmptyTable
    /\ pc = "load_raw"
    /\ runs = 0
    /\ parquet = NoFile
    /\ csv = NoFile
    /\ ReporterIdle
    /\ DashIdle

NextCurrency ==
    \/ LoadRaw
    \/ NormalizeColumns
    \/ CleanCurrencyCols

SpecCurrency == InitCurrency /\ [][NextCurrency]_vars

\* An optional "$", then digits with "," separators between digits, then an
\* optional "." with digits after it
IsCurrencyText(s) ==
    LET body == IF s # <<>> /\ s[1] = "$" THEN Tail(s) ELSE s
        n == Len(body)
    IN  \E k \in 1..n :
            /\ IsDigit(body[1]) /\ IsDigit(body[k])
            /\ \A i \in 1..k : IsDigit(body[i]) \/ body[i] = ","
            /\ \A i \in 1..(k - 1) : ~(body[i] = "," /\ body[i + 1] = ",")
            /\ \/ k = n
               \/ /\ k + 2 <= n
                  /\ body[k + 1] = "."
                  /\ \A i \in (k + 2)..n : IsDigit(body[i])

\* The value such a text denotes: its whole part, the separators left out,
\* plus its decimal part
CurrencyValue(s) ==
    LET body == IF s[1] = "$" THEN Tail(s) ELSE s
        n == Len(body)
        k == IF \E i \in 1..n : body[i] = "."
             THEN (CHOOSE i \in 1..n : body[i] = ".") - 1
             ELSE n
        whole == DigitsValue(SelectSeq(SubSeq(body, 1, k), IsDigit))
        decimals == SubSeq(body, k + 2, n)
    IN  Norm(whole * Pow10(Len(decimals)) + DigitsValue(decimals), Len(decimals))

\* A decimal literal: an optional sign, then digits, a point or both, at
\* most one point and at least one digit
IsNumericText(s) ==
    LET body == IF s # <<>> /\ s[1] \in {"+", "-"} THEN Tail(s) ELSE s
        n == Len(body)
    IN  \E k \in 0..n :
            /\ \A i \in 1..k : IsDigit(body[i])
            /\ \/ k = n /\ n >= 1
               \/ /\ k < n /\ body[k + 1] = "." /\ n >= 2
                  /\ \A i \in (k + 2)..n : IsDigit(body[i])

WithoutDollarAndComma(s) ==
    [i \in 1..Cardinality({j \in 1..Len(s) : s[j] \notin {"$", ","}}) |->
        s[CHOOSE j \in 1..Len(s) :
            /\ s[j] \notin {"$", ","}
            /\ Cardinality({h \in 1..j : s[h] \notin {"$", ","}}) = i]]

\* What currency coercion is to make of one raw cell
CoercedAsClaimed(before, after) ==
    /\ (before.k = "str" /\ IsCurrencyText(before.s))
            => after = CurrencyValue(before.s)
    /\ (before.k = "str" /\ ~IsNumericText(WithoutDollarAndComma(before.s)))
            => after = Missing
    /\ before.k = "nan" => after = Missing

\* C3: currency coercion of price and service_fee maps a cell made of an
\* optional "$", digits with "," separators and an optional decimal part to
\* its numeric value, maps a cell that is not numeric without its "$" and
\* "," to missing, yields a number or missing for every cell content (it has
\* no failing case), and leaves the other
\* columns, the column names and the number of rows as they were.
C3_CurrencyCoercion ==
    pc = "parse_date_cols" =>
          /\ df.cols = <<PRICE, SERVICE_FEE, HOST_NAME>>
          /\ Len(df.rows) = Len(raw.rows)
          /\ \A r \in 1..Len(raw.rows) :
                /\ df.rows[r][1].k \in {"num", "nan"}
                /\ df.rows[r][2].k \in {"num", "nan"}
                /\ CoercedAsClaimed(raw.rows[r][1], df.rows[r][1])
                /\ CoercedAsClaimed(raw.rows[r][2], df.rows[r][2])
                /\ df.rows[r][3] = raw.rows[r][3]

\* C3's case: "$1,234.56" was coerced to 1234.56 and a text with a letter
\* to missing.
C3_Witness ==
    /\ pc = "parse_date_cols"
    /\ raw.rows[1][2] = TxtExample /\ df.rows[1][2] = Num(123456, 2)
    /\ raw.rows[1][1] = Str(<<"$", "1", "x">>) /\ df.rows[1][1] = Missing

(***************************************************************************)
(* The readers of the cleaned table                                        *)
(***************************************************************************)
\* pd.read_parquet raises when the file is missing or unreadable, or when
\* the columnar engine fails; pd.read_csv raises when the file is missing.
ParquetReadable(files, engineFails) ==
    files.parquet.exists /\ files.parquet.readable /\ ~engineFails

\* try: read_parquet / except: read_csv, as load_clean() and load_data() both
\* have it: [ok, data, reads], ok = FALSE when read_csv raises as well
ReadClean(files, engineFails) ==
    IF ParquetReadable(files, engineFails)
    THEN [ok |-> TRUE, data |-> files.parquet.data, reads |-> 1]
    ELSE IF files.csv.exists
    THEN [ok |-> TRUE, data |-> read_csv(files.csv.data), reads |-> 2]
    ELSE [ok |-> FALSE, data |-> EmptyTable, reads |-> 2]

load_clean(files, engineFails) == ReadClean(files, engineFails)

\* The columns load_data() renames to, coerces and requires
WantedCols ==
    <<PRICE, NEIGHBOURHOOD_GROUP, ROOM_TYPE, AVAILABILITY_365, NUMBER_OF_REVIEWS,
      REVIEWS_PER_MONTH, LAT, LONG, ID, HOST_ID, HOST_NAME>>
NumericCols ==
    <<PRICE, AVAILABILITY_365, NUMBER_OF_REVIEWS, REVIEWS_PER_MONTH, LAT, LONG>>
EssentialCols == <<PRICE, ROOM_TYPE, NEIGHBOURHOOD_GROUP, LAT, LONG>>

InSeq(x, seq) == \E i \in 1..Len(seq) : seq[i] = x

\* cols = {c.lower(): c for c in df.columns}; a wanted name that is not a
\* column but is the lower case of one renames that column (the last one)
RenameWanted(t) ==
    [t EXCEPT !.cols =
        [i \in 1..Len(t.cols) |->
            LET low == StrLower(t.cols[i])
            IN  IF /\ InSeq(low, WantedCols)
                   /\ ~InSeq(low, t.cols)
                   /\ \A j \in (i + 1)..Len(t.cols) : StrLower(t.cols[j]) # low
                THEN low
                ELSE t.cols[i]]]

\* df[c] = pd.to_numeric(df[c], errors="coerce") for the numeric columns
CoerceNumeric(t) ==
    [t EXCEPT !.rows =
        [r \in 1..Len(t.rows) |->
            [i \in 1..Len(t.cols) |->
                LET c == t.rows[r][i]
                IN  IF ~InSeq(t.cols[i], NumericCols) THEN c
                    ELSE IF c.k = "str" THEN ToNumeric(c.s)
                    ELSE IF c.k = "num" THEN c
                    ELSE Missing]]]

\* df.dropna(subset=essential), essential being the essential columns present
DropNaEssential(t) ==
    [t EXCEPT !.rows =
        SelectSeq(t.rows, LAMBDA row :
            \A i \in 1..Len(t.cols) :
                InSeq(t.cols[i], EssentialCols) => ~isna(row[i]))]

\* The renaming, coercion and dropna of load_data() on the table it read
PostLoad(t) == DropNaEssential(CoerceNumeric(RenameWanted(t)))

\* The body of load_data(), run when the cache holds no entry
load_data_body(files, engineFails) ==
    LET r == ReadClean(files, engineFails)
    IN  [r EXCEPT !.data = PostLoad(r.data)]

\* As load_data without the @st.cache_data decorator: the body runs on
\* every call.
load_data_uncached(entry, files, engineFails, now) ==
    LET r == load_data_body(files, engineFails)
    IN  [ok |-> r.ok, df |-> r.data, reads |-> r.reads,
         cache |-> IF r.ok THEN [state |-> "loaded", data |-> r.data, asOf |-> now]
                   ELSE entry]

\* @st.cache_data load_data(): the entry of the process if there is one,
\* else the body, whose result becomes the entry unless it raised.
\* [ok, df, reads, cache]
load_data(entry, files, engineFails, now) ==
    IF entry.state = "loaded"
    THEN [ok |-> TRUE, df |-> entry.data, reads |-> 0, cache |-> entry]
    ELSE LET r == load_data_body(files, engineFails)
         IN  [ok |-> r.ok, df |-> r.data, reads |-> r.reads,
              cache |-> IF r.ok
                        THEN [state |-> "loaded", data |-> r.data, asOf |-> now]
                        ELSE entry]

(***************************************************************************)
(* The aggregations of the reporter and of the dashboard                   *)
(***************************************************************************)
RECURSIVE SetToSeq(_)
SetToSeq(S) ==
    IF S = {} THEN <<>>
    ELSE LET x == CHOOSE y \in S : TRUE
         IN  <<x>> \o SetToSeq(S \ {x})

RECURSIVE SumSeq(_)
SumSeq(ns) == IF ns = <<>> THEN 0 ELSE ns[1] + SumSeq(Tail(ns))

RECURSIVE MaxExp(_)
MaxExp(cells) ==
    IF cells = <<>> THEN 0
    ELSE LET rest == MaxExp(Tail(cells))
         IN  IF cells[1].e > rest THEN cells[1].e ELSE rest

\* The present numeric cells as integers, in units of 10^-scale
RECURSIVE ScaledInts(_, _)
ScaledInts(cells, scale) ==
    IF cells = <<>> THEN <<>>
    ELSE <<cells[1].m * Pow10(scale - cells[1].e)>> \o ScaledInts(Tail(cells), scale)

\* df.groupby(keys): the groups are the key tuples that occur with no key
\* missing (dropna=True); a group's rows are the rows with that key tuple.
GroupKeys(t, keys) ==
    SetToSeq({[i \in 1..Len(keys) |-> t.rows[r][ColIndex(t, keys[i])]] :
                 r \in {q \in 1..Len(t.rows) :
                          \A i \in 1..Len(keys) :
                              ~isna(t.rows[q][ColIndex(t, keys[i])])}})

GroupCells(t, keys, key, col) ==
    LET members == SelectSeq(t.rows, LAMBDA row :
                       \A i \in 1..Len(keys) : row[ColIndex(t, keys[i])] = key[i])
    IN  [r \in 1..Len(members) |-> members[r][ColIndex(t, col)]]

\* As GroupMean with the group's row count as the divisor.
GroupMeanOverAllRows(cells) ==
    LET present == DropNa(cells)
        scale == MaxExp(present)
    IN  IF present = <<>> THEN NaNFrac
        ELSE [nan |-> FALSE,
              n |-> SumSeq(ScaledInts(present, scale)),
              d |-> Len(cells) * Pow10(scale)]

\* SeriesGroupBy.mean(): the mean of the group's present values as the
\* fraction n / d, missing for a group without present values
GroupMean(cells) ==
    LET present == DropNa(cells)
        scale == MaxExp(present)
    IN  IF present = <<>> THEN NaNFrac
        ELSE [nan |-> FALSE,
              n |-> SumSeq(ScaledInts(present, scale)),
              d |-> Len(present) * Pow10(scale)]

\* SeriesGroupBy.count(): the number of present values of the group
GroupCount(cells) == [nan |-> FALSE, n |-> Len(DropNa(cells)), d |-> 1]

SeriesOrders(n) ==
    {p \in [1..n -> 1..n] : \A i, j \in 1..n : p[i] = p[j] => i = j}

\* Series.sort_values(ascending=False): the orders the sort can leave the
\* entries in: values not increasing, missing values last, entries of equal
\* value in any order (the sort is not stable)
sort_values_descending(series) ==
    {[i \in 1..Len(series) |-> series[p[i]]] : p \in
        {q \in SeriesOrders(Len(series)) :
            \A i, j \in 1..Len(series) : i < j =>
                \/ series[q[j]].val.nan
                \/ ~series[q[i]].val.nan /\ FracGe(series[q[i]].val, series[q[j]].val)}}

\* round() to the nearest integer, ties to the even one, of a / b, b > 0
RoundHalfEven(a, b) ==
    LET q == a \div b
        r == a % b
    IN  IF 2 * r < b THEN q
        ELSE IF 2 * r > b THEN q + 1
        ELSE IF q % 2 = 0 THEN q ELSE q + 1

\* Series.round(2) on one value
Round2(v) == IF v.nan THEN Missing ELSE Norm(RoundHalfEven(100 * v.n, v.d), 2)

AVG_CSV == "avg_price_by_group.csv"
TOP_CSV == "top_hosts.csv"

\* groupby("neighbourhood_group")["price"].mean(), in the order of keys
RECURSIVE GroupMeans(_, _)
GroupMeans(t, keys) ==
    IF keys = <<>> THEN <<>>
    ELSE <<[key |-> keys[1],
            val |-> GroupMean(GroupCells(t, <<NEIGHBOURHOOD_GROUP>>, keys[1], PRICE))]>>
         \o GroupMeans(t, Tail(keys))

\* Series.round(2)
RECURSIVE RoundSeries(_)
RoundSeries(series) ==
    IF series = <<>> THEN <<>>
    ELSE <<[key |-> series[1].key, val |-> Round2(series[1].val)]>>
         \o RoundSeries(Tail(series))

\* groupby("neighbourhood_group")["price"].mean().sort_values(ascending=False)
\* .round(2): the series it can give, each a sequence of [key, val]
group_mean_series(t) ==
    {RoundSeries(sorted) :
        sorted \in sort_values_descending(
                      GroupMeans(t, GroupKeys(t, <<NEIGHBOURHOOD_GROUP>>)))}

\* The results avg_price_by_neighbourhood_group(df) can return, and whether
\* it writes its file
avg_price_by_neighbourhood_group(t) ==
    IF HasCol(t, NEIGHBOURHOOD_GROUP) /\ HasCol(t, PRICE)
    THEN [writes |-> TRUE, results |-> group_mean_series(t)]
    ELSE [writes |-> FALSE, results |-> {<<>>}]

\* Series.head(n), n >= 0
SeriesHead(series, n) == SubSeq(series, 1, IF n < Len(series) THEN n ELSE Len(series))

\* groupby(["host_id","host_name"])["id"].count(), in the order of keys
RECURSIVE GroupCounts(_, _)
GroupCounts(t, keys) ==
    IF keys = <<>> THEN <<>>
    ELSE <<[key |-> keys[1],
            val |-> GroupCount(GroupCells(t, <<HOST_ID, HOST_NAME>>, keys[1], ID))]>>
         \o GroupCounts(t, Tail(keys))

\* The counts of a series of count fractions
RECURSIVE CountSeries(_)
CountSeries(series) ==
    IF series = <<>> THEN <<>>
    ELSE <<[key |-> series[1].key, val |-> series[1].val.n]>>
         \o CountSeries(Tail(series))

\* groupby(["host_id","host_name"])["id"].count().sort_values(ascending=False)
\* .head(n): the series it can give, each a sequence of [key, val]
group_count_series(t, n) ==
    {SeriesHead(CountSeries(sorted), n) :
        sorted \in sort_values_descending(
                      GroupCounts(t, GroupKeys(t, <<HOST_ID, HOST_NAME>>)))}

\* The results top_hosts(df, n) can return, and whether it writes its file
top_hosts(t, n) ==
    IF HasCol(t, HOST_ID) /\ HasCol(t, HOST_NAME) /\ HasCol(t, ID)
    THEN [writes |-> TRUE, results |-> group_count_series(t, n)]
    ELSE [writes |-> FALSE, results |-> {<<>>}]

(***************************************************************************)
(* The dashboard script: sidebar widgets, the filtered view, tab 2 and the *)
(* top hosts panel                                                         *)
(***************************************************************************)
\* DataFrame.empty: no rows or no columns
IsEmptyFrame(t) == Len(t.rows) = 0 \/ Len(t.cols) = 0

\* The k-th smallest of a non-empty sequence of integers, k in 1..Len(ns)
OrderStat(ns, k) ==
    CHOOSE v \in {ns[i] : i \in 1..Len(ns)} :
        /\ Cardinality({i \in 1..Len(ns) : ns[i] < v}) < k
        /\ k <= Cardinality({i \in 1..Len(ns) : ns[i] <= v})

\* Series.quantile(pct / 100): linear interpolation between the two order
\* statistics around position (n - 1) * pct / 100 of the present values,
\* missing when there is none.  Fewer than 100 values are assumed.
Quantile(cells, pct) ==
    LET present == DropNa(cells)
        scale == MaxExp(present)
        vals == ScaledInts(present, scale)
        pos == pct * (Len(present) - 1)
        lower == OrderStat(vals, (pos \div 100) + 1)
        upper == IF pos % 100 = 0 THEN lower ELSE OrderStat(vals, (pos \div 100) + 2)
    IN  IF present = <<>> THEN NaNFrac
        ELSE Frac(100 * lower + (pos % 100) * (upper - lower), 100 * Pow10(scale))

\* Python's max(a, b) on floats: b only when b > a
PyMax(a, b) == IF ~a.nan /\ ~b.nan /\ FracGe(b, a) /\ ~FracGe(a, b) THEN b ELSE a

\* As Between with both ends of the range excluded.
BetweenExclusive(c, range) ==
    /\ c.k = "num"
    /\ ~FracGe(range[1], FracOf(c))
    /\ ~FracGe(FracOf(c), range[2])

\* Series.between(lo, hi), inclusive on both sides, False on a missing value
Between(c, range) ==
    /\ c.k = "num"
    /\ FracGe(FracOf(c), range[1])
    /\ FracGe(range[2], FracOf(c))

\* Positions a user can drag the two handles of each slider to, besides the
\* positions the script sets them to
PriceStops == {<<50, 100>>}
AvailStops == {<<100, 200>>}
RpmStops == {<<1, 2>>}

WithinSlider(stops, top) ==
    {<<Frac(s[1], 1), Frac(s[2], 1)>> : s \in {x \in stops : FracGe(top, Frac(x[2], 1))}}

\* st.sidebar.slider("Price range", 0.0, max(p_hi, 1.0), (p_lo, p_hi), 1.0)
\* with p_lo, p_hi the 1% and 99% quantiles of price, 0.0 and 1000.0
\* without a price column
PriceDefault(t) ==
    IF HasCol(t, PRICE)
    THEN <<Quantile(Column(t, PRICE), 1), Quantile(Column(t, PRICE), 99)>>
    ELSE <<Frac(0, 1), Frac(1000, 1)>>

PriceRanges(t) ==
    {PriceDefault(t)} \cup WithinSlider(PriceStops, PyMax(PriceDefault(t)[2], Frac(1, 1)))

\* st.sidebar.slider("Availability (days/year)", 0, 365, (0, 365), 1), or
\* (0, 365) without the column
AvailDefault == <<Frac(0, 1), Frac(365, 1)>>

AvailRanges(t) ==
    IF HasCol(t, AVAILABILITY_365)
    THEN {AvailDefault} \cup WithinSlider(AvailStops, Frac(365, 1))
    ELSE {AvailDefault}

\* st.sidebar.slider("Reviews per month", 0.0, max(0.5, rpm_hi),
\* (0.0, max(0.5, rpm_hi)), 0.1), or (0.0, 999.0) without the column
RpmDefault(t) ==
    IF HasCol(t, REVIEWS_PER_MONTH)
    THEN <<Frac(0, 1), PyMax(Frac(1, 2), Quantile(Column(t, REVIEWS_PER_MONTH), 99))>>
    ELSE <<Frac(0, 1), Frac(999, 1)>>

RpmRanges(t) ==
    IF HasCol(t, REVIEWS_PER_MONTH)
    THEN {RpmDefault(t)} \cup WithinSlider(RpmStops, RpmDefault(t)[2])
    ELSE {RpmDefault(t)}

\* sorted(df[col].dropna().unique().tolist()), as a set
Options(t, col) == {c \in {t.rows[r][ColIndex(t, col)] : r \in 1..Len(t.rows)} : ~isna(c)}

\* What each sidebar widget can return for the table df: a multiselect any
\* subset of its options, a slider one of its ranges; a widget that is not
\* shown leaves the script's fallback value.
WidgetChoices(t) ==
    [ng |-> IF HasCol(t, NEIGHBOURHOOD_GROUP)
            THEN {[shown |-> TRUE, sel |-> sel] : sel \in SUBSET Options(t, NEIGHBOURHOOD_GROUP)}
            ELSE {NoSelection},
     rt |-> IF HasCol(t, ROOM_TYPE)
            THEN {[shown |-> TRUE, sel |-> sel] : sel \in SUBSET Options(t, ROOM_TYPE)}
            ELSE {NoSelection},
     price |-> PriceRanges(t),
     avail |-> AvailRanges(t),
     rpm |-> RpmRanges(t)]

\* What the widgets return in a new browser session: every option selected,
\* every slider at the value the script gives it
DefaultWidgets(t) ==
    [ng |-> IF HasCol(t, NEIGHBOURHOOD_GROUP)
            THEN [shown |-> TRUE, sel |-> Options(t, NEIGHBOURHOOD_GROUP)]
            ELSE NoSelection,
     rt |-> IF HasCol(t, ROOM_TYPE)
            THEN [shown |-> TRUE, sel |-> Options(t, ROOM_TYPE)]
            ELSE NoSelection,
     price |-> PriceDefault(t),
     avail |-> AvailDefault,
     rpm |-> RpmDefault(t)]

\* What the widgets return in the rerun an interaction triggers: the values
\* of the run before, one widget changed
WidgetNames == {"ng", "rt", "price", "avail", "rpm"}
WidgetsAfter(prev, t) ==
    UNION {{[prev EXCEPT ![f] = v] : v \in WidgetChoices(t)[f]} : f \in WidgetNames}

\* mask = price.between & (avail.between if present else True) & (rpm.between
\* if present else True); mask &= ng.isin(selected_ng) and rt.isin(selected_rt)
\* when the selections are not None; dff = df.loc[mask].copy().
\* df["price"] raises KeyError when the table has no price column.
filtered_view(t, w) ==
    IF ~HasCol(t, PRICE)
    THEN [state |-> "KeyError", dff |-> EmptyTable]
    ELSE LET mask ==
               [r \in 1..Len(t.rows) |->
                  /\ Between(t.rows[r][ColIndex(t, PRICE)], w.price)
                  /\ IF HasCol(t, AVAILABILITY_365)
                     THEN Between(t.rows[r][ColIndex(t, AVAILABILITY_365)], w.avail)
                     ELSE TRUE
                  /\ IF HasCol(t, REVIEWS_PER_MONTH)
                     THEN Between(t.rows[r][ColIndex(t, REVIEWS_PER_MONTH)], w.rpm)
                     ELSE TRUE
                  /\ w.ng.shown => t.rows[r][ColIndex(t, NEIGHBOURHOOD_GROUP)] \in w.ng.sel
                  /\ w.rt.shown => t.rows[r][ColIndex(t, ROOM_TYPE)] \in w.rt.sel]
         IN  [state |-> "rendered", dff |-> [t EXCEPT !.rows = SelectByMask(t.rows, mask)]]

\* Tab 2: the group averages of the filtered view, or the placeholder
tab2(dff) ==
    IF HasCol(dff, NEIGHBOURHOOD_GROUP) /\ HasCol(dff, PRICE)
    THEN {[shown |-> TRUE, s |-> s] : s \in group_mean_series(dff)}
    ELSE {NoPanel}

\* The bottom panel: the top 15 hosts of the filtered view, or the placeholder
top_hosts_panel(dff) ==
    IF HasCol(dff, HOST_ID) /\ HasCol(dff, HOST_NAME) /\ HasCol(dff, ID)
    THEN {[shown |-> TRUE, s |-> s] : s \in group_count_series(dff, 15)}
    ELSE {NoPanel}

\* The limits of the map tab's sample-size slider
SAMPLE_MIN == 500
SAMPLE_CAP == 10000
SAMPLE_DEFAULT == 5000

Min(a, b) == IF a < b THEN a ELSE b
Max(a, b) == IF a > b THEN a ELSE b

\* st.slider(label, min_value, max_value, value) with integers.  With the
\* value within min_value..max_value the slider offers that range.  With the
\* value outside it the call is outside the documented use of the library:
\* it raises, or it adjusts the limits to hold the value (min_value lowered
\* to max_value when above it, then both widened to the value).
st_slider(min_value, max_value, value) ==
    LET lo == Min(min_value, max_value)
        hi == Max(lo, max_value)
    IN  IF min_value <= value /\ value <= max_value
        THEN {[raised |-> FALSE, lo |-> min_value, hi |-> max_value, default |-> value]}
        ELSE {[raised |-> TRUE, lo |-> min_value, hi |-> max_value, default |-> value],
              [raised |-> FALSE, lo |-> Min(value, lo), hi |-> Max(value, hi),
               default |-> value]}

\* The positions the handle of a shown slider can be left at
SliderPositions(s) == {p \in {s.default, s.lo, s.lo + 1, s.hi} : s.lo <= p /\ p <= s.hi}

\* DataFrame.sample(k, random_state=42) of n rows, then the selection of
\* the five columns of the map: ValueError when k > n, KeyError when one of
\* the five columns is missing, else k rows, the same at every call
MapColumns == <<LAT, LONG, PRICE, NEIGHBOURHOOD_GROUP, ROOM_TYPE>>
sample_for_map(cols, n, k) ==
    IF k > n THEN [state |-> "ValueError", drawn |-> 0]
    ELSE IF \E i \in 1..Len(MapColumns) : ~InSeq(MapColumns[i], cols)
    THEN [state |-> "KeyError", drawn |-> 0]
    ELSE [state |-> "rendered", drawn |-> k]

\* Tab 5 on a filtered view with the columns cols and n rows: what it can
\* end as, for every position the user can leave the slider at
map_tab(cols, n) ==
    IF InSeq(LAT, cols) /\ InSeq(LONG, cols) /\ InSeq(PRICE, cols) /\ n > 0
    THEN UNION {
            IF s.raised
            THEN {[state |-> "StreamlitAPIException", cols |-> cols, n |-> n,
                   lo |-> s.lo, hi |-> s.hi, default |-> s.default,
                   sample_n |-> 0, drawn |-> 0]}
            ELSE {[state |-> sample_for_map(cols, n, k).state, cols |-> cols, n |-> n,
                   lo |-> s.lo, hi |-> s.hi, default |-> s.default,
                   sample_n |-> k, drawn |-> sample_for_map(cols, n, k).drawn] :
                    k \in SliderPositions(s)} :
            s \in st_slider(SAMPLE_MIN, Min(SAMPLE_CAP, n), Min(SAMPLE_DEFAULT, n))}
    ELSE {[NoMap EXCEPT !.state = "placeholder", !.cols = cols, !.n = n]}

MaxReads == 4

\* The dashboard process starts (or is restarted): nothing is cached.
DashStart ==
    /\ cache' = NoCache
    /\ reads' = 0
    /\ view' = NoView
    /\ tab5' = NoMap
    /\ UNCHANGED <<cleanerVars, fileVars, reporterVars>>

\* One execution of the script, on a page load or on a user interaction:
\* load_data(), st.stop() on an empty table, the widgets, the filtered view,
\* the tabs and the bottom panel.  A run that raises shows nothing after the
\* line that raised.
DashRun ==
    /\ cache.state = "loaded" \/ reads < MaxReads
    /\ \E engineFails \in (IF cache.state = "loaded" THEN {FALSE} ELSE BOOLEAN) :
          LET r == load_data(cache, [parquet |-> parquet, csv |-> csv], engineFails, runs)
          IN  /\ cache' = r.cache
              /\ reads' = reads + r.reads
              /\ IF ~r.ok
                 THEN /\ view' = [NoView EXCEPT !.state = "load_failed", !.asOf = runs]
                      /\ tab5' = NoMap
                 ELSE IF IsEmptyFrame(r.df)
                 THEN /\ view' = [NoView EXCEPT !.state = "stopped", !.df = r.df,
                                                !.asOf = runs]
                      /\ tab5' = NoMap
                 ELSE \E w \in {DefaultWidgets(r.df)} \cup
                              (IF view.state \in {"rendered", "KeyError"} /\ view.df = r.df
                               THEN WidgetsAfter(view.w, r.df) ELSE {}) :
                        LET f == filtered_view(r.df, w)
                        IN  /\ \E a \in tab2(f.dff), b \in top_hosts_panel(f.dff) :
                                  view' = [state |-> f.state, df |-> r.df, w |-> w,
                                           dff |-> f.dff, tab2 |-> a, top |-> b,
                                           asOf |-> runs]
                            /\ IF f.state = "rendered"
                               THEN tab5' \in map_tab(f.dff.cols, Len(f.dff.rows))
                               ELSE tab5' = NoMap
    /\ UNCHANGED <<cleanerVars, fileVars, reporterVars>>

(***************************************************************************)
(* The batch reporter, main(): load_clean()                                *)
(***************************************************************************)
ReporterStart ==
    /\ rpc' = "load_clean"
    /\ rdf' = [data |-> EmptyTable, asOf |-> 0]
    /\ avg_series' = <<>>
    /\ top_series' = NoTop
    /\ written' = {}
    /\ UNCHANGED <<cleanerVars, fileVars, dashVars>>

LoadClean ==
    /\ rpc = "load_clean"
    /\ \E engineFails \in BOOLEAN :
          LET r == load_clean([parquet |-> parquet, csv |-> csv], engineFails)
          IN  IF r.ok
              THEN rdf' = [data |-> r.data, asOf |-> runs] /\ rpc' = "avg_price"
              ELSE rdf' = rdf /\ rpc' = "failed"
    /\ UNCHANGED <<avg_series, top_series, written>>
    /\ UNCHANGED <<cleanerVars, fileVars, dashVars>>


\* Cleaned tables for the readers: every sequence of at most MaxAggRows
\* (MaxDashRows) of a sample's rows, and the tables of ExampleTables
MaxAggRows == 2
MaxDashRows == 1

GroupA == Str(<<"A">>)
GroupB == Str(<<"B">>)
RoomX == Str(<<"X">>)
RoomY == Str(<<"Y">>)
Host1 == Num(1, 0)
Host2 == Num(2, 0)
Host3 == Num(3, 0)
NameA == Str(<<"a">>)
NameB == Str(<<"b">>)

AggSamples ==
    { [cols |-> <<NEIGHBOURHOOD_GROUP, PRICE>>,
       rows |-> { <<GroupA, Num(10, 0)>>, <<GroupA, Num(20, 0)>>,
                  <<GroupB, Num(20, 0)>>, <<GroupA, Missing>>,
                  <<Missing, Num(10, 0)>> }],
      [cols |-> <<HOST_ID, HOST_NAME, ID, PRICE>>,
       rows |-> { <<Host1, NameA, Num(7, 0), Num(50, 0)>>,
                  <<Host2, NameB, Num(8, 0), Num(120, 0)>>,
                  <<Host1, Missing, Num(7, 0), Num(50, 0)>>,
                  <<Host1, NameA, Missing, Num(50, 0)>> }],
      [cols |-> <<NEIGHBOURHOOD_GROUP, HOST_ID, ID>>,
       rows |-> { <<GroupA, Host1, Num(7, 0)>>, <<GroupB, Host2, Num(8, 0)>> }] }

\* Rows over price, availability_365, reviews_per_month, neighbourhood_group
\* and room_type, and the same rows without one of the five columns
FilterCols == <<PRICE, AVAILABILITY_365, REVIEWS_PER_MONTH, NEIGHBOURHOOD_GROUP, ROOM_TYPE>>
FilterRow1 == <<Num(50, 0), Num(150, 0), Num(15, 1), GroupA, RoomX>>
FilterRow2 == <<Num(120, 0), Num(300, 0), Num(3, 0), GroupB, RoomX>>
FilterRow3 == <<Num(100, 0), Missing, Missing, GroupB, RoomY>>

Without(seq, k) == [i \in 1..(Len(seq) - 1) |-> IF i < k THEN seq[i] ELSE seq[i + 1]]

DashSamples ==
    {[cols |-> FilterCols, rows |-> {FilterRow1, FilterRow2, FilterRow3}]} \cup
    {[cols |-> Without(FilterCols, k),
      rows |-> {Without(FilterRow1, k), Without(FilterRow2, k)}] :
        k \in 1..Len(FilterCols)}

\* (A,10),(A,20),(B,30); means that are not whole cents, one a tie of the
\* rounding; hosts with 3, 5 and 1 listings
ExampleTables ==
    { [cols |-> <<NEIGHBOURHOOD_GROUP, PRICE>>, floats |-> {},
       rows |-> << <<GroupA, Num(10, 0)>>, <<GroupA, Num(20, 0)>>,
                   <<GroupB, Num(30, 0)>> >>],
      [cols |-> <<NEIGHBOURHOOD_GROUP, PRICE>>, floats |-> {PRICE},
       rows |-> << <<GroupA, Num(125, 1)>>, <<GroupA, Num(25, 2)>>,
                   <<GroupB, Num(125, 3)>>, <<GroupA, Num(10, 0)>>,
                   <<GroupA, Num(10, 0)>> >>],
      [cols |-> <<HOST_ID, HOST_NAME, ID, PRICE>>, floats |-> {},
       rows |-> << <<Host1, NameA, Num(1, 0), Num(50, 0)>>,
                   <<Host2, NameB, Num(2, 0), Num(50, 0)>>,
                   <<Host2, NameB, Num(3, 0), Num(50, 0)>>,
                   <<Host1, NameA, Num(4, 0), Num(50, 0)>>,
                   <<Host2, NameB, Num(5, 0), Num(50, 0)>>,
                   <<Host3, NameA, Num(6, 0), Num(50, 0)>>,
                   <<Host2, NameB, Num(7, 0), Num(50, 0)>>,
                   <<Host1, NameA, Num(8, 0), Num(50, 0)>>,
                   <<Host2, NameB, Num(9, 0), Num(50, 0)>> >>] }

\* The columns of a table holding a cell with decimals are float64
FloatCols(cols, rows) ==
    {cols[i] : i \in {j \in 1..Len(cols) :
                        \E r \in 1..Len(rows) : rows[r][j].k = "num" /\ rows[r][j].e > 0}}

\* Two listings priced 50 and 120 with the five filtered columns, and the
\* same two without one of the five
TwoRowTables ==
    {[cols |-> FilterCols, rows |-> <<FilterRow1, FilterRow2>>,
      floats |-> {REVIEWS_PER_MONTH}]} \cup
    {[cols |-> Without(FilterCols, k),
      rows |-> <<Without(FilterRow1, k), Without(FilterRow2, k)>>,
      floats |-> FloatCols(Without(FilterCols, k),
                           <<Without(FilterRow1, k), Without(FilterRow2, k)>>)] :
        k \in 1..Len(FilterCols)}

TablesOf(sample, maxRows) ==
    {[cols |-> sample.cols, rows |-> rows, floats |-> FloatCols(sample.cols, rows)] :
        rows \in UNION {[1..n -> sample.rows] : n \in 0..maxRows}}

ReaderTables ==
    ExampleTables
    \cup TwoRowTables
    \cup UNION {TablesOf(s, MaxAggRows) : s \in AggSamples}
    \cup UNION {TablesOf(s, MaxDashRows) : s \in DashSamples}

MaxN == 3

AvgPrice ==
    /\ rpc = "avg_price"
    /\ LET r == avg_price_by_neighbourhood_group(rdf.data)
       IN  /\ avg_series' \in r.results
           /\ written' = IF r.writes THEN written \cup {AVG_CSV} ELSE written
    /\ rpc' = "top_hosts"
    /\ UNCHANGED <<rdf, top_series>>
    /\ UNCHANGED <<cleanerVars, fileVars, dashVars>>

\* top_hosts(df, n): main() passes n = 10; here n is any of 0..MaxN
TopHosts ==
    /\ rpc = "top_hosts"
    /\ \E n \in 0..MaxN :
          LET r == top_hosts(rdf.data, n)
          IN  /\ \E t \in r.results : top_series' = [n |-> n, entries |-> t]
              /\ written' = IF r.writes THEN written \cup {TOP_CSV} ELSE written
    /\ rpc' = "done"
    /\ UNCHANGED <<rdf, avg_series>>
    /\ UNCHANGED <<cleanerVars, fileVars, dashVars>>

\* A cleaned table is in the columnar file; a reporter has started and no
\* dashboard has run yet.  The two readers share nothing but the file, which
\* neither writes, so each is followed on its own: the reporter while the
\* dashboard has not run, the dashboard while the reporter has not read.
InitReaders ==
    /\ raw = EmptyTable
    /\ df = EmptyTable
    /\ pc = "load_raw"
    /\ runs = 0
    /\ \E t \in ReaderTables : parquet = FileOf(t)
    /\ csv = NoFile
    /\ rpc = "load_clean"
    /\ rdf = [data |-> EmptyTable, asOf |-> 0]
    /\ avg_series = <<>>
    /\ top_series = NoTop
    /\ written = {}
    /\ DashIdle

DashboardNotRun == cache = NoCache /\ reads = 0 /\ view = NoView

NextReaders ==
    \/ DashboardNotRun /\ LoadClean
    \/ DashboardNotRun /\ AvgPrice
    \/ DashboardNotRun /\ TopHosts
    \/ rpc = "load_clean" /\ DashStart
    \/ rpc = "load_clean" /\ DashRun

SpecReaders == InitReaders /\ [][NextReaders]_vars

(***************************************************************************)
(* Properties of the dashboard's filtered view                             *)
(***************************************************************************)
HasAllFilterCols(t) == \A i \in 1..Len(FilterCols) : HasCol(t, FilterCols[i])

\* The cell is a number within the closed range lo..hi of two fractions
WithinRange(c, range) ==
    /\ c.k = "num"
    /\ range[1].n * Pow10(c.e) <= c.m * range[1].d
    /\ c.m * range[2].d <= range[2].n * Pow10(c.e)

\* The row meets the filter on col, which holds for pass when the table has
\* no such column
MeetsRange(t, row, col, range) ==
    HasCol(t, col) => WithinRange(row[ColIndex(t, col)], range)

MeetsSelection(t, row, col, selection) ==
    HasCol(t, col) => row[ColIndex(t, col)] \in selection.sel

MeetsPresentFilters(t, row, w) ==
    /\ MeetsRange(t, row, PRICE, w.price)
    /\ MeetsRange(t, row, AVAILABILITY_365, w.avail)
    /\ MeetsRange(t, row, REVIEWS_PER_MONTH, w.rpm)
    /\ MeetsSelection(t, row, NEIGHBOURHOOD_GROUP, w.ng)
    /\ MeetsSelection(t, row, ROOM_TYPE, w.rt)

\* C5: on a loaded table with the five filtered columns, the filtered view
\* holds exactly the rows whose price, availability_365 and
\* reviews_per_month lie in the selected closed ranges and whose
\* neighbourhood_group and room_type are among the selected values, in the
\* table's order; with nothing selected in a multiselect the view is empty;
\* and a rerun with the same table and the same settings shows the same view.
C5_FilteredViewIsAndOfFilters ==
    /\ [](view.state = "rendered" /\ HasAllFilterCols(view.df) =>
            /\ view.dff.cols = view.df.cols
            /\ view.dff.rows =
                  SelectSeq(view.df.rows,
                            LAMBDA row : MeetsPresentFilters(view.df, row, view.w))
            /\ (view.w.ng.sel = {} \/ view.w.rt.sel = {}) => view.dff.rows = <<>>)
    /\ [][(/\ view.state = "rendered" /\ view'.state = "rendered"
           /\ HasAllFilterCols(view.df)
           /\ view'.df = view.df /\ view'.w = view.w) => view'.dff = view.dff]_vars

\* A two-row table with the five columns, the price slider moved to 50..100:
\* the row priced 50 is shown, the row priced 120 is not.
C5_Witness ==
    /\ view.state = "rendered"
    /\ HasAllFilterCols(view.df)
    /\ view.df.rows = <<FilterRow1, FilterRow2>>
    /\ view.w.price = <<Frac(50, 1), Frac(100, 1)>>
    /\ view.w.ng.sel = {GroupA, GroupB}
    /\ view.dff.rows = <<FilterRow1>>

\* C6: whichever of the five filtered columns the loaded table lacks, the
\* script gets through the filtering without raising, and the filtered view
\* holds exactly the rows that meet the filters on the columns present.
C6_AbsentColumnIsNoRestriction ==
    view.state \in {"rendered", "KeyError"} =>
        /\ view.state = "rendered"
        /\ view.dff.rows =
              SelectSeq(view.df.rows,
                        LAMBDA row : MeetsPresentFilters(view.df, row, view.w))

(***************************************************************************)
(* Properties of the aggregations                                          *)
(***************************************************************************)
\* The rows of t whose cell in col is c, as their cells in col2
CellsWhere(t, col, c, col2) ==
    LET members == SelectSeq(t.rows, LAMBDA row : row[ColIndex(t, col)] = c)
    IN  [r \in 1..Len(members) |-> members[r][ColIndex(t, col2)]]

\* v is the mean of the present numbers, to within half a cent, and has at
\* most two decimals
IsMeanToCents(present, v) ==
    LET scale == MaxExp(present)
        total == SumSeq(ScaledInts(present, scale))
        units == Len(present) * Pow10(scale)
    IN  /\ v.k = "num"
        /\ v.e <= 2
        /\ 2 * Abs(100 * total - v.m * Pow10(2 - v.e) * units) <= units

\* The series s holds one entry per neighbourhood group occurring in t, the
\* group's mean price to the cent (missing for a group without a present
\* price), present values not increasing
IsGroupAverage(t, s) ==
    LET groups == Options(t, NEIGHBOURHOOD_GROUP)
    IN  /\ Len(s) = Cardinality(groups)
        /\ {s[i].key : i \in 1..Len(s)} = {<<g>> : g \in groups}
        /\ \A i \in 1..Len(s) :
              LET present == DropNa(CellsWhere(t, NEIGHBOURHOOD_GROUP, s[i].key[1], PRICE))
              IN  IF present = <<>> THEN isna(s[i].val)
                  ELSE IsMeanToCents(present, s[i].val)
        /\ \A i, j \in 1..Len(s) :
              (i < j /\ ~isna(s[i].val) /\ ~isna(s[j].val)) => NumLe(s[j].val, s[i].val)

HasGroupAndPrice(t) == HasCol(t, NEIGHBOURHOOD_GROUP) /\ HasCol(t, PRICE)

\* C7: once the reporter has called avg_price_by_neighbourhood_group, its
\* result holds one entry per neighbourhood group of the table, the mean of
\* the group's present prices rounded to the cent, in non-increasing order,
\* and the file is written; without one of the two columns the result is
\* empty and nothing is written.  Tab 2 of the dashboard shows the same of
\* the filtered view.
C7_GroupAverage ==
    /\ rpc \in {"top_hosts", "done"} =>
          IF HasGroupAndPrice(rdf.data)
          THEN IsGroupAverage(rdf.data, avg_series) /\ AVG_CSV \in written
          ELSE avg_series = <<>> /\ AVG_CSV \notin written
    /\ view.state = "rendered" =>
          IF HasGroupAndPrice(view.dff)
          THEN view.tab2.shown /\ IsGroupAverage(view.dff, view.tab2.s)
          ELSE ~view.tab2.shown

\* Rows (A,10),(A,20),(B,30) have given B: 30 and then A: 15.
C7_Witness ==
    /\ rpc = "done"
    /\ rdf.data.rows = << <<GroupA, Num(10, 0)>>, <<GroupA, Num(20, 0)>>,
                          <<GroupB, Num(30, 0)>> >>
    /\ avg_series = << [key |-> <<GroupB>>, val |-> Num(30, 0)],
                       [key |-> <<GroupA>>, val |-> Num(15, 0)] >>
    /\ AVG_CSV \in written

\* The hosts of a table, as (host_id, host_name) pairs, and the number of
\* listing rows of a host
HostsOf(t) ==
    {<<t.rows[r][ColIndex(t, HOST_ID)], t.rows[r][ColIndex(t, HOST_NAME)]>> :
        r \in 1..Len(t.rows)}

ListingRows(t, host) ==
    Cardinality({r \in 1..Len(t.rows) :
                    /\ t.rows[r][ColIndex(t, HOST_ID)] = host[1]
                    /\ t.rows[r][ColIndex(t, HOST_NAME)] = host[2]})

\* The series s holds min(n, number of hosts) entries, one per host, each
\* with the host's number of listing rows, counts not increasing, and no
\* host left out has more listing rows than a host in s
IsTopHosts(t, n, s) ==
    LET hosts == HostsOf(t)
        shown == {s[i].key : i \in 1..Len(s)}
    IN  /\ Len(s) = IF n < Cardinality(hosts) THEN n ELSE Cardinality(hosts)
        /\ Cardinality(shown) = Len(s)
        /\ shown \subseteq hosts
        /\ \A i \in 1..Len(s) : s[i].val = ListingRows(t, s[i].key)
        /\ \A i, j \in 1..Len(s) : i < j => s[i].val >= s[j].val
        /\ \A h \in hosts \ shown, k \in shown : ListingRows(t, h) <= ListingRows(t, k)

HasHostCols(t) == HasCol(t, HOST_ID) /\ HasCol(t, HOST_NAME) /\ HasCol(t, ID)

\* C8: once the reporter has called top_hosts(df, n), its result holds
\* min(n, number of hosts) entries, one per (host_id, host_name) pair, each
\* with the number of listing rows of that host whether or not the row's
\* host_name or id is missing, counts not increasing, no host left out
\* having more rows than one included; the dashboard's panel shows the same
\* of the filtered view with n = 15.
C8_TopHosts ==
    /\ (rpc = "done" /\ HasHostCols(rdf.data)) =>
          IsTopHosts(rdf.data, top_series.n, top_series.entries)
    /\ (view.state = "rendered" /\ HasHostCols(view.dff)) =>
          view.top.shown /\ IsTopHosts(view.dff, 15, view.top.s)

(***************************************************************************)
(* Cleaner runs, reporter runs and dashboard processes over the two files  *)
(***************************************************************************)
MaxRuns == 2

\* The raw file as the k-th run finds it: one listing priced $k
RawOfRun(k) ==
    [cols |-> <<DatasetSpelling(PRICE), DatasetSpelling(HOST_NAME)>>,
     rows |-> <<<<Str(<<"$", Digits[k + 1]>>), TxtVerified>>>>,
     floats |-> {}]

\* The table the k-th cleaner run writes
CleanedOfRun(k) == CleanSteps(RawOfRun(k)).df

\* A cleaner process runs main() up to the persist step.
RunCleaner ==
    /\ pc \in {"load_raw", "done", "aborted"}
    /\ runs < MaxRuns
    /\ raw' = RawOfRun(runs + 1)
    /\ LET r == CleanSteps(RawOfRun(runs + 1))
       IN  df' = r.df /\ pc' = IF r.checks = "ok" THEN "save" ELSE "aborted"
    /\ UNCHANGED <<runs, fileVars, reporterVars, dashVars>>

InitFiles ==
    /\ raw = EmptyTable
    /\ df = EmptyTable
    /\ pc = "load_raw"
    /\ runs = 0
    /\ parquet = NoFile
    /\ csv = NoFile
    /\ ReporterIdle
    /\ DashIdle

\* A reader starts while no cleaner run is under way.
NextFiles ==
    \/ RunCleaner
    \/ Save
    \/ pc # "save" /\ ReporterStart
    \/ pc # "save" /\ LoadClean
    \/ pc # "save" /\ DashStart
    \/ pc # "save" /\ DashRun

SpecFiles == InitFiles /\ [][NextFiles]_vars

\* C9: a cleaner run whose columnar write fails leaves its full cleaned
\* table in the delimited-text file, and a reader (load_clean, load_data)
\* started after a cleaner run has finished its persist step loads the table
\* of the most recent such run, never that of an earlier run.
C9_FormatFallbackTransparent ==
    /\ pc = "done" => parquet = FileOf(df) \/ csv = FileOf(to_csv(df))
    /\ (rpc = "avg_price" /\ rdf.asOf >= 1) => rdf.data = CleanedOfRun(rdf.asOf)
    /\ (cache.state = "loaded" /\ cache.asOf >= 1)
            => cache.data = PostLoad(CleanedOfRun(cache.asOf))

\* C10: once load_data() has succeeded in a dashboard process, every later
\* script run of that process works on the cached table and attempts no file
\* read, whatever has been written to the files since; the entry goes only
\* when the process is restarted.
C10_LoadedOncePerProcess ==
    [][cache.state = "loaded" =>
          \/ cache' = NoCache /\ reads' = 0 /\ view' = NoView
          \/ /\ cache' = cache
             /\ reads' = reads
             /\ view' # view =>
                   /\ view'.state \in {"rendered", "stopped", "KeyError"}
                   /\ view'.df = cache.data]_vars

\* C10's case: a script run made after a later cleaner run had rewritten the
\* columnar file still worked on the table cached before that run.
C10_Witness ==
    /\ cache.state = "loaded"
    /\ view.state = "rendered"
    /\ view.asOf > cache.asOf
    /\ view.df = cache.data
    /\ parquet = FileOf(CleanedOfRun(view.asOf))
    /\ PostLoad(parquet.data) # cache.data

(***************************************************************************)
(* The map tab on filtered views of any size: a filtered view is given by  *)
(* its columns and its number of rows, which is all tab 5 reads before it  *)
(* samples                                                                 *)
(***************************************************************************)
MaxRowCount == 20000

RowCounts ==
    {0, 1, 2, 3, 100, 499, 500, 501, 502, 1000, 4999, 5000, 5001, 9999, 10000,
     10001, MaxRowCount}

ViewColumns ==
    { MapColumns,
      <<LAT, LONG, PRICE>>,
      <<LAT, LONG, PRICE, ROOM_TYPE>>,
      <<LAT, PRICE, NEIGHBOURHOOD_GROUP, ROOM_TYPE>> }

\* A script run whose filtered view has the columns cols and n rows gets to
\* tab 5.
MapTab ==
    /\ \E cols \in ViewColumns, n \in RowCounts : tab5' \in map_tab(cols, n)
    /\ UNCHANGED <<cache, reads, view>>
    /\ UNCHANGED <<cleanerVars, fileVars, reporterVars>>

InitMap ==
    /\ raw = EmptyTable
    /\ df = EmptyTable
    /\ pc = "load_raw"
    /\ runs = 0
    /\ parquet = NoFile
    /\ csv = NoFile
    /\ ReporterIdle
    /\ DashIdle

NextMap == MapTab

SpecMap == InitMap /\ [][NextMap]_vars

\* C11: whenever tab 5 has run on a filtered view with lat, long and price
\* columns and at least one row, its slider offered 500..min(10000, rows)
\* with a default within that range, the chosen size is at most the number
\* of rows, exactly that many rows were sampled, and the tab rendered.
C11_MapSampleSize ==
    (/\ tab5.state # "none"
     /\ InSeq(LAT, tab5.cols) /\ InSeq(LONG, tab5.cols) /\ InSeq(PRICE, tab5.cols)
     /\ tab5.n >= 1) =>
        /\ tab5.state = "rendered"
        /\ tab5.lo = 500
        /\ tab5.hi = (IF tab5.n < 10000 THEN tab5.n ELSE 10000)
        /\ tab5.lo <= tab5.default /\ tab5.default <= tab5.hi
        /\ tab5.sample_n <= tab5.n
        /\ tab5.drawn = tab5.sample_n

====
